---- MODULE Spec2Model ----
(***************************************************************************)
(* Model of sanding_demo1/src/demo2.cpp: the cylinder tool path            *)
(* (makePath), the trajopt problem assembly (makeProblem) and the control  *)
(* flow of main (load, group creation, solve, export, execute).            *)
(***************************************************************************)
EXTENDS Integers, Sequences, FiniteSets, TLC

(***************************************************************************)
(* IEEE-754 binary64 arithmetic on the angles of makePath.                 *)
(* A non-negative double below 8.0 is held exactly as an integer count of  *)
(* 2^-54 (the ulp of the binade [1/4, 1/2) that M_PI / 12.0 falls in),     *)
(* written as three limbs <<h, m, l>> = h*2^48 + m*2^24 + l, so that no    *)
(* intermediate value leaves the 32-bit integer range.                     *)
(***************************************************************************)
Base == 2^24

Zero == <<0, 0, 0>>

\* exact sum of two limb numbers
Add(a, b) ==
  LET l == a[3] + b[3]
      m == a[2] + b[2] + (l \div Base)
      h == a[1] + b[1] + (m \div Base)
  IN  <<h, m % Base, l % Base>>

\* a <= b on limb numbers
Leq(a, b) ==
  \/ a[1] < b[1]
  \/ a[1] = b[1] /\ a[2] < b[2]
  \/ a[1] = b[1] /\ a[2] = b[2] /\ a[3] <= b[3]

\* multiplication by 2 (exact in binary floating point)
Times2(a) == Add(a, a)

\* spacing of the doubles around a value x = h*2^48 + ..., in units of 2^-54:
\* 1 below 2^53 units (h < 32), doubling with every binade above
RECURSIVE UlpOf(_, _)
UlpOf(h, u) == IF h < 32 THEN u ELSE UlpOf(h \div 2, 2 * u)

Ulp(a) == UlpOf(a[1], 1)

\* round-to-nearest, ties-to-even, of the exact value a + f (0 <= f < 1 unit)
\* to a double; sticky classifies f: 0 (f = 0), 1 (f < 1/2), 2 (f = 1/2),
\* 3 (f > 1/2)
RoundNearestEven(a, sticky) ==
  LET u    == Ulp(a)
      low  == a[3] % u
      down == <<a[1], a[2], a[3] - low>>
      odd  == ((a[3] \div u) % 2) = 1
      up   == IF u = 1
              THEN sticky = 3 \/ (sticky = 2 /\ odd)
              ELSE \/ 2 * low > u
                   \/ 2 * low = u /\ sticky > 0
                   \/ 2 * low = u /\ sticky = 0 /\ odd
  IN  IF up THEN Add(down, <<0, 0, u>>) ELSE down

\* double addition a + b
FAdd(a, b) == RoundNearestEven(Add(a, b), 0)

\* double division a / d by a small integer-valued double d (long division by
\* limbs, then rounding of the quotient)
FDiv(a, d) ==
  LET qh  == a[1] \div d
      rh  == a[1] % d
      qm  == (rh * Base + a[2]) \div d
      rm  == (rh * Base + a[2]) % d
      ql  == (rm * Base + a[3]) \div d
      rem == (rm * Base + a[3]) % d
      sticky == IF rem = 0 THEN 0
                ELSE IF 2 * rem < d THEN 1
                ELSE IF 2 * rem = d THEN 2 ELSE 3
  IN  RoundNearestEven(<<qh, qm, ql>>, sticky)

\* M_PI = 0x1.921FB54442D18p+1: the 53-bit significand 0x1921FB54442D18
\* counts 2^-51, i.e. 8 units of 2^-54
M_PI == Times2(Times2(Times2(<<25, 2227028, 4467992>>)))

\* the loop bound 2 * M_PI and the increment M_PI / 12.0 of makePath
TwoPi == Times2(M_PI)

AngleStep == FDiv(M_PI, 12)

n_slices == 5

(***************************************************************************)
(* Bounds of the model.                                                    *)
(***************************************************************************)
\* largest number of joints of the robot
MaxDof == 2

\* joint values range over 0..MaxJointVal
MaxJointVal == 1

\* longest tool path handed to makeProblem when it is checked on its own
MaxPathLen == 3

JointVals == 0..MaxJointVal

VARIABLES
  pc,             \* position of main
  exit_status,    \* <<code>> once main has returned code, <<>> before
  log,            \* ROS_WARN / ROS_ERROR diagnostics, in order
  published,      \* latched topics published so far
  env,            \* tesseract environment (NoEnv while the pointer is null)
  v,              \* makePath: the vector being filled
  i,              \* makePath: slice index; main: row index of the export loop
  r,              \* makePath: the angle accumulator
  geometric_path, \* main: the path returned by makePath
  opt_problem,    \* main: the problem returned by makeProblem
  optimizer,      \* trajopt::BasicTrustRegionSQP
  opt_status,     \* main: status returned by optimize()
  result,         \* main: getTraj(optimizer.x(), vars)
  out,            \* main: trajectory_msgs::JointTrajectory
  exec            \* the call of executeTrajectory and what it returned

vars == <<pc, exit_status, log, published, env, v, i, r, geometric_path,
          opt_problem, optimizer, opt_status, result, out, exec>>

\* a null pointer, and a value not produced yet
NoEnv == [null |-> TRUE]
NoKin == [null |-> TRUE]
None == [none |-> TRUE]
NoStatus == "none"

\* a 6-DoF frame of makePath, kept symbolically: the translation is
\* slice_center(slice) + radius * (cos angle, sin angle, 0) and the three axes
\* are functions of the angle alone
Pose(slice, angle) ==
  [translation |-> [slice |-> slice, angle |-> angle],
   linear      |-> [angle |-> angle]]

\* a decimal literal of the source, as the fraction num / den
Dec(num, den) == <<num, den>>

\* ros::Duration(double) for a whole number of seconds
Duration(whole) == [sec |-> whole, nsec |-> 0]

(***************************************************************************)
(* The environment (tesseract::tesseract_ros::KDLEnv), as far as main and  *)
(* makeProblem use it.                                                     *)
(***************************************************************************)
\* the environment KDLEnv::init leaves behind: the joints of the robot with
\* their default values, no attached object, no manipulator
NewEnv(values) ==
  [joint_values |-> values, objects |-> {}, attached |-> {},
   manipulators |-> [m \in {} |-> 0]]

\* every environment loadEnvironment can produce
LoadedEnvs ==
  {NewEnv(vals) : vals \in UNION {[1..n -> JointVals] : n \in 1..MaxDof}}

getManipulator(e, name) ==
  IF name \in DOMAIN e.manipulators
  THEN [name |-> name, numJoints |-> e.manipulators[name]]
  ELSE NoKin

getCurrentJointValues(e, name) ==
  SubSeq(e.joint_values, 1, e.manipulators[name])

\* env->setState(names, std::vector<double>(names.size(), 0.0))
setStateZero(e) ==
  [e EXCEPT !.joint_values = [j \in 1..Len(e.joint_values) |-> 0]]

(***************************************************************************)
(* makeProblem (lines 151-229).                                            *)
(***************************************************************************)
Bodies == {"sander_disk", "sander_shaft", "part", "sander_tcp", "world_frame"}

\* trajopt::SafetyMarginData(default margin, default coefficient)
SafetyMarginData(margin, coeff) ==
  [default |-> <<margin, coeff>>, pair_lookup |-> [p \in {} |-> <<>>]]

\* SafetyMarginData::SetPairSafetyMarginData(obj1, obj2, margin, coeff)
SetPairSafetyMarginData(c, obj1, obj2, margin, coeff) ==
  [c EXCEPT !.pair_lookup =
     [p \in (DOMAIN c.pair_lookup) \cup {{obj1, obj2}} |->
        IF p = {obj1, obj2} THEN <<margin, coeff>> ELSE c.pair_lookup[p]]]

\* SafetyMarginData::getPairSafetyMarginData(obj1, obj2)
getPairSafetyMarginData(c, obj1, obj2) ==
  IF {obj1, obj2} \in DOMAIN c.pair_lookup
  THEN c.pair_lookup[{obj1, obj2}]
  ELSE c.default

\* CollisionInfo with the second override written to the pair of the first
CollisionInfo_wrong_pair(n_steps) ==
  [s \in 1..n_steps |->
     SetPairSafetyMarginData(
       SetPairSafetyMarginData(SafetyMarginData(Dec(25, 1000), Dec(20, 1)),
                               "sander_disk", "part", Dec(-1, 100), Dec(20, 1)),
       "sander_disk", "part", Dec(0, 1), Dec(20, 1))]

\* lines 192-199: one SafetyMarginData per step, each with the two overrides
CollisionInfo(n_steps) ==
  [s \in 1..n_steps |->
     SetPairSafetyMarginData(
       SetPairSafetyMarginData(SafetyMarginData(Dec(25, 1000), Dec(20, 1)),
                               "sander_disk", "part", Dec(-1, 100), Dec(20, 1)),
       "sander_shaft", "part", Dec(0, 1), Dec(20, 1))]

\* lines 167-170: start_pos.transpose().replicate(n_steps, 1)
InitData(start_pos, n_steps) ==
  [rows |-> n_steps, cols |-> Len(start_pos),
   at   |-> [s \in 1..n_steps |-> start_pos]]

\* CostInfos with the collision term ending one step past the horizon
CostInfos_last_step(dof, n_steps) ==
  << [type |-> "JointVelCostInfo", name |-> "joint_vel", term_type |-> "TT_COST",
      coeffs |-> [j \in 1..dof |-> Dec(5, 2)]],
     [type |-> "JointAccCostInfo", name |-> "joint_acc", term_type |-> "TT_COST",
      coeffs |-> [j \in 1..dof |-> Dec(5, 1)]],
     [type |-> "CollisionCostInfo", name |-> "collision", term_type |-> "TT_COST",
      continuous |-> FALSE, first_step |-> 0, last_step |-> n_steps,
      gap |-> 1, info |-> CollisionInfo(n_steps)] >>

\* lines 173-201: the cost terms, in push_back order
CostInfos(dof, n_steps) ==
  << [type |-> "JointVelCostInfo", name |-> "joint_vel", term_type |-> "TT_COST",
      coeffs |-> [j \in 1..dof |-> Dec(5, 2)]],
     [type |-> "JointAccCostInfo", name |-> "joint_acc", term_type |-> "TT_COST",
      coeffs |-> [j \in 1..dof |-> Dec(5, 1)]],
     [type |-> "CollisionCostInfo", name |-> "collision", term_type |-> "TT_COST",
      continuous |-> FALSE, first_step |-> 0, last_step |-> n_steps - 1,
      gap |-> 1, info |-> CollisionInfo(n_steps)] >>

\* CntInfos with 1-based step indices
CntInfos_one_based(path) ==
  [k \in 1..Len(path) |->
     [type |-> "StaticPoseCostInfo", term_type |-> "TT_CNT",
      name |-> <<"waypoint_cart_", k>>, link |-> "sander_tcp",
      timestep |-> k,
      xyz |-> path[k].translation, wxyz |-> path[k].linear,
      pos_coeffs |-> <<10, 10, 10>>, rot_coeffs |-> <<10, 10, 0>>]]

\* lines 214-226: one StaticPoseCostInfo per waypoint; k is the 1-based
\* position in the sequence, the loop variable is k - 1
CntInfos(path) ==
  [k \in 1..Len(path) |->
     [type |-> "StaticPoseCostInfo", term_type |-> "TT_CNT",
      name |-> <<"waypoint_cart_", k - 1>>, link |-> "sander_tcp",
      timestep |-> k - 1,
      xyz |-> path[k].translation, wxyz |-> path[k].linear,
      pos_coeffs |-> <<10, 10, 10>>, rot_coeffs |-> <<10, 10, 0>>]]

\* the ProblemConstructionInfo that makeProblem hands to ConstructProblem,
\* for the kinematic object kin with dof joints at start_pos
ProblemInfo(kin, dof, start_pos, path) ==
  LET n_steps == Len(path)
  IN  [basic_info |-> [n_steps |-> n_steps, manip |-> "my_robot",
                       start_fixed |-> FALSE],
       kin        |-> kin,
       init_info  |-> [type |-> "STATIONARY",
                       data |-> InitData(start_pos, n_steps)],
       cost_infos |-> CostInfos(dof, n_steps),
       cnt_infos  |-> CntInfos(path)]

\* the outcomes of makeProblem(env, path): the problem, or, where the group is
\* not resolved, those of dereferencing the null kinematic object at line 164
\* (undefined behaviour: the process dies, or runs on with an arbitrary joint
\* count and start position)
makeProblem(e, path) ==
  LET kin == getManipulator(e, "my_robot")
  IN  IF kin # NoKin
      THEN {ProblemInfo(kin, kin.numJoints,
                        getCurrentJointValues(e, kin.name), path)}
      ELSE {[crash |-> TRUE]} \cup
           {ProblemInfo(NoKin, Len(sp), sp, path) :
              sp \in UNION {[1..n -> JointVals] : n \in 1..MaxDof}}

\* trajopt::ConstructProblem(pci): the problem keeps the construction info, the
\* initial trajectory and an n_steps x dof matrix of variables
ConstructProblem(pci) ==
  [pci       |-> pci,
   init_traj |-> pci.init_info.data,
   vars      |-> [rows |-> pci.basic_info.n_steps,
                  cols |-> pci.init_info.data.cols]]

(***************************************************************************)
(* The solver (trajopt::BasicTrustRegionSQP), a black box to main.         *)
(***************************************************************************)
\* trajopt::trajToDblVec: the matrix as one row-major vector
trajToDblVec(traj) ==
  [k \in 1..(traj.rows * traj.cols) |->
     traj.at[((k - 1) \div traj.cols) + 1][((k - 1) % traj.cols) + 1]]

\* trajopt::getTraj(x, vars): the rows x cols matrix read back from x
getTraj(x, shape) ==
  [rows |-> shape.rows, cols |-> shape.cols,
   at   |-> [s \in 1..shape.rows |->
               [j \in 1..shape.cols |-> x[(s - 1) * shape.cols + j]]]]

OptStatus == {"OPT_CONVERGED", "OPT_SCO_ITERATION_LIMIT",
              "OPT_PENALTY_ITERATION_LIMIT", "OPT_FAILED"}

\* the iterates optimize() can leave in x: vectors of the length of x0 with
\* entries in JointVals, one per displacement pattern d
Iterates(x0) ==
  {[k \in 1..Len(x0) |-> (x0[k] + d * k) % (MaxJointVal + 1)] : d \in JointVals}

NewOptimizer == [state |-> "None", x |-> <<>>, init_calls |-> 0, opt_calls |-> 0]

(***************************************************************************)
(* main (lines 231-313), step by step.                                     *)
(***************************************************************************)
Init ==
  /\ pc = "loadEnvironment"
  /\ exit_status = <<>>
  /\ log = <<>>
  /\ published = {}
  /\ env = NoEnv
  /\ v = <<>>
  /\ i = 0
  /\ r = Zero
  /\ geometric_path = <<>>
  /\ opt_problem = None
  /\ optimizer = NewOptimizer
  /\ opt_status = NoStatus
  /\ result = None
  /\ out = [joint_names |-> <<>>, points |-> <<>>]
  /\ exec = [called |-> FALSE]

\* the five early returns of loadEnvironment (lines 55-86), in source order
LoadFailures == {"robot_description", "semantic desc", "parse urdf",
                 "parse srdf", "!env init"}

\* lines 236-240: loadEnvironment(env) and the check of what it returned
loadEnvironment ==
  /\ pc = "loadEnvironment"
  /\ \E outcome \in LoadFailures \cup {"ok"} :
       IF outcome = "ok"
       THEN /\ env' \in LoadedEnvs
            /\ pc' = "addObject"
            /\ UNCHANGED <<log, exit_status>>
       ELSE /\ log' = Append(log, <<"WARN", outcome>>)
            /\ exit_status' = <<-1>>
            /\ pc' = "exited"
            /\ UNCHANGED env
  /\ UNCHANGED <<published, v, i, r, geometric_path, opt_problem, optimizer,
                 opt_status, result, out, exec>>

\* line 242 (lines 18-45): the cylinder "part", attached to world_frame
addObject ==
  /\ pc = "addObject"
  /\ env' = [env EXCEPT !.objects = @ \cup {"part"},
                        !.attached = @ \cup {<<"part", "world_frame">>}]
  /\ pc' = "addManipulator"
  /\ UNCHANGED <<exit_status, log, published, v, i, r, geometric_path,
                 opt_problem, optimizer, opt_status, result, out, exec>>

\* addManipulator with the result of env->addManipulator ignored
addManipulator_unchecked ==
  /\ pc = "addManipulator"
  /\ \E ok \in BOOLEAN, dof \in 1..Len(env.joint_values) :
       IF ok
       THEN env' = [env EXCEPT !.manipulators = [m \in {"my_robot"} |-> dof]]
       ELSE UNCHANGED env
  /\ pc' = "setState"
  /\ UNCHANGED <<log, exit_status, published, v, i, r, geometric_path,
                 opt_problem, optimizer, opt_status, result, out, exec>>

\* lines 244-248: the group "my_robot" over the chain world_frame..sander_tcp
addManipulator ==
  /\ pc = "addManipulator"
  /\ \E ok \in BOOLEAN, dof \in 1..Len(env.joint_values) :
       IF ok
       THEN /\ env' = [env EXCEPT !.manipulators =
                         [m \in {"my_robot"} |-> dof]]
            /\ pc' = "setState"
            /\ UNCHANGED <<log, exit_status>>
       ELSE /\ log' = Append(log, <<"ERROR", "Could not create group">>)
            /\ exit_status' = <<-2>>
            /\ pc' = "exited"
            /\ UNCHANGED env
  /\ UNCHANGED <<published, v, i, r, geometric_path, opt_problem, optimizer,
                 opt_status, result, out, exec>>

\* lines 251-252: every joint at 0.0
setState ==
  /\ pc = "setState"
  /\ env' = setStateZero(env)
  /\ pc' = "makePath"
  /\ UNCHANGED <<exit_status, log, published, v, i, r, geometric_path,
                 opt_problem, optimizer, opt_status, result, out, exec>>

(***************************************************************************)
(* makePath (lines 106-148), called at line 266.                           *)
(***************************************************************************)
\* lines 108-116: the empty vector and the first test of the slice loop
makePath_begin ==
  /\ pc = "makePath"
  /\ v' = <<>>
  /\ i' = 0
  /\ r' = Zero
  /\ pc' = "slice"
  /\ UNCHANGED <<exit_status, log, published, env, geometric_path, opt_problem,
                 optimizer, opt_status, result, out, exec>>

\* lines 116-120: i < n_slices, the slice center and r = 0.0
makePath_slice ==
  /\ pc = "slice"
  /\ i < n_slices
  /\ r' = Zero
  /\ pc' = "angle"
  /\ UNCHANGED <<exit_status, log, published, env, v, i, geometric_path,
                 opt_problem, optimizer, opt_status, result, out, exec>>

\* lines 120-137: r <= 2 * M_PI, one pose pushed, r += M_PI / 12.0
makePath_sample ==
  /\ pc = "angle"
  /\ Leq(r, TwoPi)
  /\ v' = Append(v, Pose(i, r))
  /\ r' = FAdd(r, AngleStep)
  /\ UNCHANGED <<pc, exit_status, log, published, env, i, geometric_path,
                 opt_problem, optimizer, opt_status, result, out, exec>>

\* lines 120, 116: the angle loop ends, ++i
makePath_next ==
  /\ pc = "angle"
  /\ ~Leq(r, TwoPi)
  /\ i' = i + 1
  /\ pc' = "slice"
  /\ UNCHANGED <<exit_status, log, published, env, v, r, geometric_path,
                 opt_problem, optimizer, opt_status, result, out, exec>>

\* lines 116, 147 and 266-274: the slice loop ends, makePath returns v and
\* main publishes the poses
makePath_return ==
  /\ pc = "slice"
  /\ ~(i < n_slices)
  /\ geometric_path' = v
  /\ published' = published \cup {"poses"}
  /\ pc' = "makeProblem"
  /\ UNCHANGED <<exit_status, log, env, v, i, r, opt_problem, optimizer,
                 opt_status, result, out, exec>>

(***************************************************************************)
(* The solve, the export and the execution (lines 276-312).                *)
(***************************************************************************)
\* line 276: opt_problem = makeProblem(env, geometric_path)
makeProblem_call ==
  /\ pc = "makeProblem"
  /\ \E pci \in makeProblem(env, geometric_path) :
       IF "crash" \in DOMAIN pci
       THEN /\ pc' = "crashed"
            /\ UNCHANGED opt_problem
       ELSE /\ opt_problem' = ConstructProblem(pci)
            /\ pc' = "initialize"
  /\ UNCHANGED <<exit_status, log, published, env, v, i, r, geometric_path,
                 optimizer, opt_status, result, out, exec>>

\* main without the call of optimizer.initialize
initialize_missing ==
  /\ pc = "initialize"
  /\ pc' = "optimize"
  /\ UNCHANGED <<exit_status, log, published, env, v, i, r, geometric_path,
                 opt_problem, optimizer, opt_status, result, out, exec>>

\* lines 278-279: the optimizer is built and given the initial trajectory
initialize ==
  /\ pc = "initialize"
  /\ optimizer' = [NewOptimizer EXCEPT
                     !.state = "Initialized",
                     !.x = trajToDblVec(opt_problem.init_traj),
                     !.init_calls = optimizer.init_calls + 1]
  /\ pc' = "optimize"
  /\ UNCHANGED <<exit_status, log, published, env, v, i, r, geometric_path,
                 opt_problem, opt_status, result, out, exec>>

\* line 281: optimizer.optimize() is entered
optimize_call ==
  /\ pc = "optimize"
  /\ optimizer' = [optimizer EXCEPT !.state = "Running",
                                    !.opt_calls = @ + 1]
  /\ pc' = "optimizing"
  /\ UNCHANGED <<exit_status, log, published, env, v, i, r, geometric_path,
                 opt_problem, opt_status, result, out, exec>>

\* lines 281-288: optimize() returns; the warning, the result matrix and the
\* joint names of the outgoing trajectory
optimize_return ==
  /\ pc = "optimizing"
  /\ \E status \in OptStatus, x \in Iterates(optimizer.x) :
       /\ optimizer' = [optimizer EXCEPT
                          !.state = IF status = "OPT_CONVERGED"
                                    THEN "Converged" ELSE "NotConverged",
                          !.x = x]
       /\ opt_status' = status
       /\ log' = IF status # "OPT_CONVERGED"
                 THEN Append(log, <<"WARN", "Did not converge">>)
                 ELSE log
       /\ result' = getTraj(x, opt_problem.vars)
  /\ out' = [joint_names |->
               [j \in 1..getManipulator(env, "my_robot").numJoints |-> j],
             points |-> <<>>]
  /\ i' = 0
  /\ pc' = "export"
  /\ UNCHANGED <<exit_status, published, env, v, r, geometric_path,
                 opt_problem, exec>>

\* export_point that stops after the first row when the solver did not converge
export_point_truncating ==
  /\ pc = "export"
  /\ i < result.rows
  /\ out' = [out EXCEPT !.points =
               Append(@, [positions |-> [j \in 1..result.cols |->
                                           result.at[i + 1][j]],
                          time_from_start |-> Duration(i)])]
  /\ i' = IF opt_status = "OPT_CONVERGED" THEN i + 1 ELSE result.rows
  /\ UNCHANGED <<pc, exit_status, log, published, env, v, r, geometric_path,
                 opt_problem, optimizer, opt_status, result, exec>>

\* export_point that stamps each point with the time of the next one
export_point_late ==
  /\ pc = "export"
  /\ i < result.rows
  /\ out' = [out EXCEPT !.points =
               Append(@, [positions |-> [j \in 1..result.cols |->
                                           result.at[i + 1][j]],
                          time_from_start |-> Duration(i + 1)])]
  /\ i' = i + 1
  /\ UNCHANGED <<pc, exit_status, log, published, env, v, r, geometric_path,
                 opt_problem, optimizer, opt_status, result, exec>>

\* lines 289-298: one JointTrajectoryPoint per row of result
export_point ==
  /\ pc = "export"
  /\ i < result.rows
  /\ out' = [out EXCEPT !.points =
               Append(@, [positions |-> [j \in 1..result.cols |->
                                           result.at[i + 1][j]],
                          time_from_start |-> Duration(i)])]
  /\ i' = i + 1
  /\ UNCHANGED <<pc, exit_status, log, published, env, v, r, geometric_path,
                 opt_problem, optimizer, opt_status, result, exec>>

\* lines 289, 300-306: the loop ends and the scene is published
export_done ==
  /\ pc = "export"
  /\ ~(i < result.rows)
  /\ published' = published \cup {"scene"}
  /\ pc' = "executeTrajectory"
  /\ UNCHANGED <<exit_status, log, env, v, i, r, geometric_path, opt_problem,
                 optimizer, opt_status, result, out, exec>>

GoalStates == {"SUCCEEDED", "ABORTED", "PREEMPTED", "LOST"}

\* line 309 (lines 89-104): executeTrajectory(out); main drops what it returns
executeTrajectory ==
  /\ pc = "executeTrajectory"
  /\ \E connected \in BOOLEAN, goal_state \in GoalStates :
       IF ~connected
       THEN /\ log' = Append(log, <<"ERROR", "Could not connect to action server">>)
            /\ exec' = [called |-> TRUE, goal |-> None, returned |-> FALSE]
       ELSE /\ exec' = [called |-> TRUE,
                        goal |-> [trajectory |-> out,
                                  goal_time_tolerance |-> Duration(1)],
                        returned |-> (goal_state = "SUCCEEDED")]
            /\ UNCHANGED log
  /\ pc' = "spin"
  /\ UNCHANGED <<exit_status, published, env, v, i, r, geometric_path,
                 opt_problem, optimizer, opt_status, result, out>>

\* lines 311-312: ros::spin() returns at shutdown and main returns 0
spin ==
  /\ pc = "spin"
  /\ exit_status' = <<0>>
  /\ pc' = "exited"
  /\ UNCHANGED <<log, published, env, v, i, r, geometric_path, opt_problem,
                 optimizer, opt_status, result, out, exec>>

Next ==
  \/ loadEnvironment
  \/ addObject
  \/ addManipulator
  \/ setState
  \/ makePath_begin
  \/ makePath_slice
  \/ makePath_sample
  \/ makePath_next
  \/ makePath_return
  \/ makeProblem_call
  \/ initialize
  \/ optimize_call
  \/ optimize_return
  \/ export_point
  \/ export_done
  \/ executeTrajectory
  \/ spin

Spec == Init /\ [][Next]_vars

(***************************************************************************)
(* makeProblem on its own: every path of up to MaxPathLen waypoints and    *)
(* every environment in which the group "my_robot" is resolved.            *)
(***************************************************************************)
Waypoints == {Pose(s, a) : s \in 0..1, a \in {Zero, AngleStep}}

Paths == UNION {[1..n -> Waypoints] : n \in 0..MaxPathLen}

ResolvedEnvs ==
  {[x[1] EXCEPT !.objects = {"part"},
                !.attached = {<<"part", "world_frame">>},
                !.manipulators = [m \in {"my_robot"} |-> x[2]]] :
     x \in {y \in LoadedEnvs \X (1..MaxDof) : y[2] <= Len(y[1].joint_values)}}

ProblemInit ==
  /\ pc = "makeProblem"
  /\ exit_status = <<>>
  /\ log = <<>>
  /\ published = {"poses"}
  /\ env \in ResolvedEnvs
  /\ v = <<>>
  /\ i = 0
  /\ r = Zero
  /\ geometric_path \in Paths
  /\ opt_problem = None
  /\ optimizer = NewOptimizer
  /\ opt_status = NoStatus
  /\ result = None
  /\ out = [joint_names |-> <<>>, points |-> <<>>]
  /\ exec = [called |-> FALSE]

ProblemNext == makeProblem_call

ProblemSpec == ProblemInit /\ [][ProblemNext]_vars

(***************************************************************************)
(* Properties.                                                             *)
(***************************************************************************)
\* makePath has returned to main
PathReturned == "poses" \in published

\* makeProblem has returned a problem to main
ProblemBuilt == opt_problem # None

\* the trajectory is complete: main is past the export loop
Exported ==
  \/ pc \in {"executeTrajectory", "spin"}
  \/ pc = "exited" /\ exit_status = <<0>>

\* 2*pi / (pi/12): the samples of one revolution at the step of line 120
SamplesPerRevolution == 2 * 12

\* C1: for the fixed inputs of makePath (5 slices, step pi/12) the returned
\* path has exactly slices x samples-per-revolution = 120 waypoints, each
\* slice scanning [0, 2*pi) with no second sample at the end of the turn.
C1_PathLength ==
  PathReturned =>
    /\ Len(geometric_path) = n_slices * SamplesPerRevolution
    /\ \A s \in 0..(n_slices - 1) :
         Cardinality({k \in 1..Len(geometric_path) :
                        geometric_path[k].translation.slice = s})
           = SamplesPerRevolution

\* C2: for every path of length n, makeProblem's constraint list holds exactly
\* n pose terms; the k-th (0-based) has step index k and targets waypoint k,
\* so the indices are 0..n-1 in order, each within [0, n_steps - 1].
C2_Constraints ==
  ProblemBuilt =>
    LET cnt == opt_problem.pci.cnt_infos
        n   == Len(geometric_path)
    IN  /\ opt_problem.pci.basic_info.n_steps = n
        /\ Len(cnt) = n
        /\ \A k \in 1..n :
             /\ cnt[k].type = "StaticPoseCostInfo"
             /\ cnt[k].term_type = "TT_CNT"
             /\ cnt[k].timestep = k - 1
             /\ cnt[k].timestep \in 0..(opt_problem.pci.basic_info.n_steps - 1)
             /\ cnt[k].xyz = geometric_path[k].translation
             /\ cnt[k].wxyz = geometric_path[k].linear

C2_Witness ==
  /\ ProblemBuilt
  /\ Len(geometric_path) >= 2
  /\ opt_problem.pci.cnt_infos[2].timestep = 1

\* the margin and weight C3 expects of a body pair
ExpectedMargin(a, b) ==
  IF {a, b} = {"sander_disk", "part"} THEN <<Dec(-1, 100), Dec(20, 1)>>
  ELSE IF {a, b} = {"sander_shaft", "part"} THEN <<Dec(0, 1), Dec(20, 1)>>
  ELSE <<Dec(25, 1000), Dec(20, 1)>>

\* C3: in the collision cost, at every step 0..n_steps-1, (sander_disk, part)
\* has margin -0.01 and weight 20, (sander_shaft, part) has margin 0.0 and
\* weight 20, and every other body pair keeps the default 0.025 and 20.
C3_CollisionMargins ==
  ProblemBuilt =>
    LET info == opt_problem.pci.cost_infos[3].info
    IN  /\ Len(info) = opt_problem.pci.basic_info.n_steps
        /\ \A s \in 1..Len(info) : \A a, b \in Bodies :
             getPairSafetyMarginData(info[s], a, b) = ExpectedMargin(a, b)

C3_Witness ==
  /\ ProblemBuilt
  /\ Len(opt_problem.pci.cost_infos[3].info) >= 2
  /\ getPairSafetyMarginData(opt_problem.pci.cost_infos[3].info[2],
                             "part", "sander_disk") = <<Dec(-1, 100), Dec(20, 1)>>

\* the stages after the group is created
LaterStages == {"setState", "makePath", "slice", "angle", "makeProblem",
                "initialize", "optimize", "optimizing", "export",
                "executeTrajectory", "spin", "crashed"}

\* C4: if loading the world model fails or the group "my_robot" cannot be
\* created, then makeProblem, the solver, the export and executeTrajectory are
\* never invoked and main ends with a non-zero status; no problem is ever
\* built from an unresolved (null) kinematic group.
C4_ShortCircuit ==
  /\ (env = NoEnv \/ getManipulator(env, "my_robot") = NoKin) =>
       /\ pc \notin LaterStages
       /\ opt_problem = None
       /\ optimizer = NewOptimizer
       /\ opt_status = NoStatus
       /\ out.points = <<>>
       /\ ~exec.called
       /\ pc = "exited" => exit_status \in {<<-1>>, <<-2>>}
  /\ ProblemBuilt => opt_problem.pci.kin # NoKin

C4_Witness ==
  /\ pc = "exited"
  /\ env # NoEnv
  /\ getManipulator(env, "my_robot") = NoKin
  /\ exit_status = <<-2>>

\* C5: when the action server is not reached within the connect timeout, or
\* the goal does not end in SUCCEEDED, executeTrajectory returns failure
\* without crashing (and, unconnected, without sending a goal), and the
\* failure shows in the outcome of main: the run does not end successfully.
C5_FailureObservable ==
  (pc = "exited" /\ exec.called /\ ~exec.returned) => exit_status # <<0>>

\* C6: whether the solver reports convergence or not, the pipeline goes on to
\* the export, the exported trajectory has one point per row of the joint
\* matrix, each with one position per column, and non-convergence only adds
\* the diagnostic.
C6_NoTruncation ==
  /\ opt_status # NoStatus =>
       /\ pc \in {"export", "executeTrajectory", "spin", "exited"}
       /\ exit_status \in {<<>>, <<0>>}
       /\ (\E k \in 1..Len(log) : log[k] = <<"WARN", "Did not converge">>)
            <=> opt_status # "OPT_CONVERGED"
  /\ Exported =>
       /\ result.rows = Len(geometric_path)
       /\ Len(out.points) = result.rows
       /\ \A k \in 1..Len(out.points) :
            /\ Len(out.points[k].positions) = result.cols
            /\ \A j \in 1..result.cols :
                 out.points[k].positions[j] = result.at[k][j]

C6_Witness ==
  /\ pc = "spin"
  /\ opt_status = "OPT_SCO_ITERATION_LIMIT"
  /\ Len(out.points) = Len(geometric_path)
  /\ Len(out.points) > 0

\* C7: the exported point at index i (0-based) has time offset exactly i
\* seconds: the first is at 0, consecutive points are 1 apart, and the offsets
\* increase strictly, in the order of the rows of the joint matrix.
C7_TimeOffsets ==
  LET pts == out.points
  IN  /\ \A k \in 1..Len(pts) : pts[k].time_from_start = Duration(k - 1)
      /\ \A k \in 1..(Len(pts) - 1) :
           /\ pts[k + 1].time_from_start.sec = pts[k].time_from_start.sec + 1
           /\ pts[k + 1].time_from_start.nsec = pts[k].time_from_start.nsec
      /\ Exported => Len(pts) = result.rows

C7_Witness ==
  /\ Exported
  /\ Len(out.points) >= 3
  /\ out.points[3].time_from_start = Duration(2)

\* C8: the problem carries exactly three cost terms in the order joint
\* velocity, joint acceleration, collision; the first has coefficient 2.5 and
\* the second 5.0 for each joint of the group; the collision term is
\* discrete-only and spans first_step = 0 to last_step = n_steps - 1.
C8_CostTerms ==
  ProblemBuilt =>
    LET cost == opt_problem.pci.cost_infos
        dof  == getManipulator(env, "my_robot").numJoints
    IN  /\ Len(cost) = 3
        /\ cost[1].type = "JointVelCostInfo"
        /\ cost[2].type = "JointAccCostInfo"
        /\ cost[3].type = "CollisionCostInfo"
        /\ \A t \in 1..3 : cost[t].term_type = "TT_COST"
        /\ cost[1].coeffs = [j \in 1..dof |-> Dec(5, 2)]
        /\ cost[2].coeffs = [j \in 1..dof |-> Dec(5, 1)]
        /\ ~cost[3].continuous
        /\ cost[3].first_step = 0
        /\ cost[3].last_step = Len(geometric_path) - 1

C8_Witness ==
  /\ ProblemBuilt
  /\ Len(geometric_path) = 2
  /\ Len(opt_problem.pci.cost_infos[1].coeffs) = 2
  /\ opt_problem.pci.cost_infos[3].last_step = 1

\* C9: makePath emits the waypoints slice by slice and angle by angle: with
\* S samples per revolution the waypoint at index k is on slice floor(k / S)
\* at angular sample k mod S, the angle starting from 0 in each slice and
\* increasing strictly by the step.
C9_ScanOrder ==
  PathReturned =>
    \A k \in 0..(Len(geometric_path) - 1) :
      LET w == geometric_path[k + 1]
      IN  /\ w.translation.slice = k \div SamplesPerRevolution
          /\ w.linear.angle = w.translation.angle
          /\ IF k % SamplesPerRevolution = 0
             THEN w.translation.angle = Zero
             ELSE LET p == geometric_path[k].translation.angle
                  IN  /\ w.translation.angle = FAdd(p, AngleStep)
                      /\ ~Leq(w.translation.angle, p)

SolverSteps == {<<"None", "Initialized">>, <<"Initialized", "Running">>,
                <<"Running", "Converged">>, <<"Running", "NotConverged">>}

C10_State ==
  /\ optimizer.init_calls <= 1
  /\ optimizer.opt_calls <= 1
  /\ optimizer.opt_calls = 1 => optimizer.init_calls = 1
  /\ optimizer.state = "None" <=> optimizer.init_calls = 0
  /\ optimizer.state \in {"None", "Initialized"} <=> optimizer.opt_calls = 0
  /\ optimizer.state \in {"Initialized", "Running"} =>
       LET n     == Len(geometric_path)
           start == getCurrentJointValues(env, "my_robot")
           dof   == Len(start)
       IN  /\ n > 0 /\ dof > 0
           /\ Len(optimizer.x) = n * dof
           /\ \A s \in 1..n : \A j \in 1..dof :
                optimizer.x[(s - 1) * dof + j] = start[j]
  /\ (opt_status # NoStatus \/ result # None \/ out.points # <<>>) =>
       /\ optimizer.state \in {"Converged", "NotConverged"}
       /\ optimizer.state = "Converged" <=> opt_status = "OPT_CONVERGED"
  /\ Exported => optimizer.init_calls = 1 /\ optimizer.opt_calls = 1

\* C10: the solver goes Initialized -> Running -> Converged | NotConverged:
\* initialize is called once, before optimize, with n_steps rows each equal to
\* the group's current joint values; optimize is called once; the result is
\* read and exported only after optimize has returned a terminal status.
C10_SolverProtocol ==
  /\ []C10_State
  /\ [][optimizer.state' # optimizer.state =>
          <<optimizer.state, optimizer.state'>> \in SolverSteps]_vars

C10_Witness ==
  /\ pc = "spin"
  /\ optimizer.state = "NotConverged"
  /\ optimizer.init_calls = 1
  /\ optimizer.opt_calls = 1
  /\ Len(out.points) > 0

====
